---------------------------- MODULE Spec2Model ----------------------------
(***************************************************************************)
(* Model of the ambify granular engine (hooks/useGranularEngine.ts).       *)
(*                                                                         *)
(* Numbers.  The source computes with floating-point seconds.  The model   *)
(* computes with exact fixed-point integers:                               *)
(*   - parameter fields that the source keeps in seconds (startPoint,      *)
(*     endPoint, reverbDecay) are kept in milliseconds;                    *)
(*   - playbackRate is kept in hundredths, reverbWet in percent;           *)
(*   - computed times (grain duration, offsets, envelope breakpoints) are  *)
(*     kept in time units, UnitsPerMs units to the millisecond, so that    *)
(*     Math.random() * offsetRange is exact for every draw k / RandSteps.  *)
(***************************************************************************)
EXTENDS Integers, Sequences, FiniteSets, TLC

\* ------------------------------------------------------------------ bounds
RandSteps == 2        \* Math.random() yields k / RandSteps, k in 0..RandSteps-1
MaxClock == 1         \* the backend clock is observed at 0..MaxClock steps
MaxGrains == 1        \* live grains remembered
MaxPending == 2       \* start() calls awaiting ctx.resume() at one time
MaxTimerId == 2       \* interval handles handed out by setInterval
MaxChanges == 2       \* density changes made through the page

\* --------------------------------------------------------------- constants
MinWindow == 50       \* 0.05 s, in ms
MinEnvelope == 5      \* 0.005 s, in ms
SafetyTail == 50      \* 0.05 s, in ms
SampleRate == 44100
DefaultGain == 100    \* a new GainNode has gain 1 (percent)
MinRegion == 10       \* 0.01 s, in ms: the page keeps end - start at least this
InitialRegion == 4000 \* 4 s, in ms: the region the beta page sets after a load
ClockStepMs == 40     \* one observed step of ctx.currentTime, in ms

UnitsPerMs == RandSteps

Null == 0

Max(a, b) == IF a >= b THEN a ELSE b
Min(a, b) == IF a <= b THEN a ELSE b

Fields == {"grainSizeMs", "density", "playbackRate", "detuneSemitones",
           "startPoint", "endPoint", "attackMs", "releaseMs",
           "reverbWet", "reverbDecay"}

DEFAULT_PARAMS ==
  [grainSizeMs |-> 120, density |-> 8, playbackRate |-> 100,
   detuneSemitones |-> 0, startPoint |-> 0, endPoint |-> 1000,
   attackMs |-> 10, releaseMs |-> 30, reverbWet |-> 25, reverbDecay |-> 2500]

Merge_overDefaults(p, partial) ==
  [f \in Fields |->
     IF f \in DOMAIN partial THEN partial[f] ELSE DEFAULT_PARAMS[f]]

\* { ...params, ...partial }
Merge(p, partial) ==
  [f \in Fields |-> IF f \in DOMAIN partial THEN partial[f] ELSE p[f]]

\* Math.max(Math.floor(decaySec * ctx.sampleRate), 1)
makeImpulse(decayMs) == Max((decayMs * SampleRate) \div 1000, 1)

\* Math.pow(2, detuneSemitones / 12), as an exact ratio for whole octaves
detuneMultiplier(d) ==
  IF d >= 0 THEN [num |-> 2 ^ (d \div 12), den |-> 1]
            ELSE [num |-> 1, den |-> 2 ^ ((0 - d) \div 12)]

\* ------------------------------------------------- live path: spawnGrain
liveGrainDuration(p) == p.grainSizeMs * UnitsPerMs

liveWindowLength(p) ==
  Max((p.endPoint - p.startPoint) * UnitsPerMs, MinWindow * UnitsPerMs)

liveOffsetRange_noFit(p) == liveWindowLength(p)

liveOffsetRange(p) == Max(liveWindowLength(p) - liveGrainDuration(p), 0)

\* params.startPoint + Math.random() * offsetRange
liveOffset(p, k) ==
  p.startPoint * UnitsPerMs + (k * liveOffsetRange(p)) \div RandSteps

liveRate_noDetune(p) == [num |-> p.playbackRate, den |-> 100]

\* params.playbackRate * detuneMultiplier
liveRate(p) ==
  [num |-> p.playbackRate * detuneMultiplier(p.detuneSemitones).num,
   den |-> 100 * detuneMultiplier(p.detuneSemitones).den]

liveMaxEnvelope(p) ==
  Max(liveGrainDuration(p) - MinEnvelope * UnitsPerMs, MinEnvelope * UnitsPerMs)

liveAttackSec_initial(p) ==
  Min(DEFAULT_PARAMS.attackMs * UnitsPerMs, liveMaxEnvelope(p))

liveAttackSec(p) == Min(p.attackMs * UnitsPerMs, liveMaxEnvelope(p))

liveReleaseSec_unclamped(p) ==
  Min(p.releaseMs * UnitsPerMs, liveMaxEnvelope(p))

liveReleaseSec(p) ==
  Min(p.releaseMs * UnitsPerMs, liveMaxEnvelope(p) - liveAttackSec(p))

\* relative to now
liveReleaseStart(p) ==
  Max(liveGrainDuration(p) - liveReleaseSec(p), liveAttackSec(p))

liveStopAfter(p) == liveGrainDuration(p) + SafetyTail * UnitsPerMs

\* the commands one spawnGrain call hands to the backend
liveGrain(p, now, k, dry, wet) ==
  [path |-> "live", ref |-> now, k |-> k, params |-> p,
   offset |-> liveOffset(p, k),
   duration |-> liveGrainDuration(p),
   rate |-> liveRate(p),
   attack |-> liveAttackSec(p),
   release |-> liveReleaseSec(p),
   attackEnd |-> now + liveAttackSec(p),
   releaseStart |-> now + liveReleaseStart(p),
   envEnd |-> now + liveReleaseStart(p) + liveReleaseSec(p),
   stopAt |-> now + liveStopAfter(p),
   dry |-> dry, wet |-> wet]

\* ---------------------------------------------- offline path: renderLoop
offGrainDuration(p) == p.grainSizeMs * UnitsPerMs

offStep(p) == (1000 * UnitsPerMs) \div Max(p.density, 1)

offWindowLength(p) ==
  Max((p.endPoint - p.startPoint) * UnitsPerMs, MinWindow * UnitsPerMs)

offOffsetRange(p) == Max(offWindowLength(p) - offGrainDuration(p), 0)

offOffset(p, k) ==
  p.startPoint * UnitsPerMs + (k * offOffsetRange(p)) \div RandSteps

offRate(p) ==
  [num |-> p.playbackRate * detuneMultiplier(p.detuneSemitones).num,
   den |-> 100 * detuneMultiplier(p.detuneSemitones).den]

offMaxEnvelope(p) ==
  Max(offGrainDuration(p) - MinEnvelope * UnitsPerMs, MinEnvelope * UnitsPerMs)

offAttackSec(p) == Min(p.attackMs * UnitsPerMs, offMaxEnvelope(p))

offReleaseSec(p) ==
  Min(p.releaseMs * UnitsPerMs, offMaxEnvelope(p) - offAttackSec(p))

offReleaseStart_noMax(p) == offGrainDuration(p) - offReleaseSec(p)

offReleaseStart(p) ==
  Max(offGrainDuration(p) - offReleaseSec(p), offAttackSec(p))

offStopAfter_noTail(p) == offGrainDuration(p)

offStopAfter(p) == offGrainDuration(p) + SafetyTail * UnitsPerMs

\* the commands one iteration of the sweep hands to the render target
offGrain(p, t, k) ==
  [path |-> "offline", ref |-> t, k |-> k, params |-> p,
   offset |-> offOffset(p, k),
   duration |-> offGrainDuration(p),
   rate |-> offRate(p),
   attack |-> offAttackSec(p),
   release |-> offReleaseSec(p),
   attackEnd |-> t + offAttackSec(p),
   releaseStart |-> t + offReleaseStart(p),
   envEnd |-> t + offReleaseStart(p) + offReleaseSec(p),
   stopAt |-> t + offStopAfter(p),
   dry |-> TRUE, wet |-> TRUE]

\* for (let t = 0; t < durationSec; t += step): the grid points visited
RECURSIVE GridFrom(_, _, _)
GridFrom(t, step, durationSec) ==
  IF t < durationSec THEN <<t>> \o GridFrom(t + step, step, durationSec)
                     ELSE << >>

\* the grains the sweep submits, in submission order; draws[i] is the
\* Math.random() result of the i-th iteration
offSweep(p, durationSec, draws) ==
  LET grid == GridFrom(0, offStep(p), durationSec)
  IN  [i \in 1..Len(grid) |-> offGrain(p, grid[i], draws[i])]

\* ------------------------------- the sweep's clock in double arithmetic
\* `t` and `step` of the sweep are IEEE doubles.  A double below 2^13 that is
\* a multiple of 2^-58 is written <<a, b, c>>, three limbs of LimbBits bits,
\* standing for (a * Limb^2 + b * Limb + c) * 2^-58.
Mantissa == 53        \* significand bits of a double
LimbBits == 20
Limb == 2 ^ LimbBits

\* 1.0 is 2^58 units: 2^18 in the top limb
fOne == <<Limb \div 4, 0, 0>>

fZero == <<0, 0, 0>>

\* a whole number of seconds
fSeconds(n) == <<n * fOne[1], 0, 0>>

\* carry propagation
fNorm(x) ==
  LET mid == x[2] + x[3] \div Limb
  IN  <<x[1] + mid \div Limb, mid % Limb, x[3] % Limb>>

RECURSIVE bitLen(_)
bitLen(n) == IF n = 0 THEN 0 ELSE 1 + bitLen(n \div 2)

\* position of the leading bit
fBits(x) ==
  IF x[1] > 0 THEN 2 * LimbBits + bitLen(x[1])
  ELSE IF x[2] > 0 THEN LimbBits + bitLen(x[2])
  ELSE bitLen(x[3])

\* round to nearest, ties to even, at Mantissa significant bits; sticky says
\* that bits below the last limb were dropped
fRound(x, sticky) ==
  LET s == fBits(x) - Mantissa
  IN  IF s <= 0 THEN x
      ELSE LET r == x[3] % (2 ^ s)
               half == 2 ^ (s - 1)
               odd == (x[3] \div (2 ^ s)) % 2 = 1
               up == r > half \/ (r = half /\ (sticky \/ odd))
           IN  fNorm(<<x[1], x[2], x[3] - r + (IF up THEN 2 ^ s ELSE 0)>>)

\* t + step
fAdd(x, y) == fRound(fNorm(<<x[1] + y[1], x[2] + y[2], x[3] + y[3]>>), FALSE)

\* t < durationSec
fLess(x, y) ==
  \/ x[1] < y[1]
  \/ x[1] = y[1] /\ x[2] < y[2]
  \/ x[1] = y[1] /\ x[2] = y[2] /\ x[3] < y[3]

\* 1 / d for an integer d in 1 .. 32, by long division over the limbs of 1.0
fRecip(d) ==
  LET r1 == fOne[1] % d
      r2 == (r1 * Limb) % d
      r3 == (r2 * Limb) % d
  IN  fRound(<<fOne[1] \div d, (r1 * Limb) \div d, (r2 * Limb) \div d>>,
             r3 > 0)

\* 1 / Math.max(params.density, 1)
sweepStep(p) == fRecip(Max(p.density, 1))

\* for (let t = 0; t < durationSec; t += step): the values t takes
RECURSIVE sweepTimes(_, _, _)
sweepTimes(t, step, durationSec) ==
  IF fLess(t, durationSec)
    THEN <<t>> \o sweepTimes(fAdd(t, step), step, durationSec)
    ELSE << >>

\* ------------------------------------------------------------------ state
VARIABLES
  audioCtx,      \* audioCtxRef.current is set
  dryGain,       \* dryGainRef.current is set
  wetGain,       \* wetGainRef.current: its gain.value in percent, or NoNode
  reverb,        \* reverbRef.current: length of its impulse buffer, or NoNode
  buffer,        \* bufferRef.current: duration in ms of the decoded buffer, or Null
  duration,      \* React state `duration`, in ms
  params,        \* paramsRef.current
  timerRef,      \* timerRef.current: an interval handle, or Null
  timers,        \* the intervals the browser is running: [id, intervalMs]
  nextTimer,     \* the handle the next setInterval returns
  isPlaying,     \* React state `isPlaying`
  startPending,  \* start() calls suspended in `await ctx.resume()`, counted by
                 \* whether a buffer was loaded when the call was made
  loads,         \* loadFile() calls suspended in decoding: the decoded durations
  grains,        \* grains submitted to the live backend, in order
  renders,       \* the render target built by the latest renderLoop, if any
  currentTime,   \* ctx.currentTime, in clock steps
  mounted,       \* the owning component is mounted
  stopped,       \* stop() has returned and start() was not invoked since
  last,          \* outcome of the latest tick, start() or renderLoop()
  page           \* React state of the page that owns the engine: its copies of
                 \* startPoint, endPoint, density and bufferDuration, whether
                 \* its density effect is due, and the density changes made

vars == <<audioCtx, dryGain, wetGain, reverb, buffer, duration, params,
          timerRef, timers, nextTimer, isPlaying, startPending, loads,
          grains, renders, currentTime, mounted, stopped, last, page>>

graph == <<audioCtx, dryGain, wetGain, reverb>>
sched == <<timerRef, timers, nextTimer, isPlaying>>

NoNode == 0 - 1

\* everything the hook owns
engine ==
  <<graph, buffer, duration, params, sched, startPending, loads, grains,
    renders, currentTime, mounted, stopped, last>>

\* the page's state before any event: the defaults, bufferDuration 1 s
PageInit ==
  [startPoint |-> DEFAULT_PARAMS.startPoint,
   endPoint |-> DEFAULT_PARAMS.endPoint,
   density |-> DEFAULT_PARAMS.density,
   bufferDuration |-> 1000,
   effectDue |-> FALSE,
   changes |-> 0]

\* ----------------------------------------------------------- input domains
LoadDurations == {3000}

\* the partial updates the control layer sends while the scheduler runs
Partials ==
  { [density |-> 2],
    [startPoint |-> 20, endPoint |-> 10],
    [startPoint |-> 0, endPoint |-> 1000],
    [reverbWet |-> 60] }

\* durationSec arguments of renderLoop, in ms
RenderDurations == {125, 250}

\* parameter sets for the grain computations
SynthParams ==
  { Merge(DEFAULT_PARAMS,
          [grainSizeMs |-> g, attackMs |-> a, releaseMs |-> r,
           startPoint |-> w[1], endPoint |-> w[2]]) :
      g \in {2, 20, 120}, a \in {0, 10, 200}, r \in {30, 400},
      w \in {<<0, 1000>>, <<2000, 2010>>, <<20, 10>>} }

\* the partial updates that reach the reverb and the grain shape
GraphPartials ==
  { [reverbDecay |-> 100],
    [reverbDecay |-> 0],
    [grainSizeMs |-> 20, attackMs |-> 200] }

\* durationSec arguments of renderLoop while the calls interleave, in ms
GraphRenderDurations == {125}

\* density values the store can hold: the slider's, and values below its range
DensityValues == {0 - 3, 0, 1, 4, 8}

DensityParams ==
  { Merge(DEFAULT_PARAMS,
          [density |-> n, startPoint |-> 0, endPoint |-> 3000]) :
      n \in DensityValues }

\* playback rates (hundredths) and detunes (whole octaves, in semitones)
RateParams ==
  { Merge(DEFAULT_PARAMS, [playbackRate |-> r, detuneSemitones |-> d]) :
      r \in {25, 100, 200}, d \in {0 - 24, 0 - 12, 0, 12, 24} }

\* durations of the files loaded through the page, in ms
PageDurations == {10, 3000}

\* durations of the files loaded through the beta page, in ms
BetaDurations == {3000, 5000}

\* values of the start and end sliders, in ms (those above bufferDuration
\* are out of the sliders' range)
SliderValues == {0, 10, 3000}

\* starts and ends a region event of the waveform viewer reports, in ms
RegionValues == {1000, 2000}

\* values of the page's density slider
PageDensities == {2, 4, 8}

\* handles for every start() the page can issue: the clicks made before the
\* first one resumes, one per change of the effect's dependencies
PageTimerIds == MaxPending + MaxChanges + 1

\* a merge of the grain shape sent while grains are in flight
ShapePartials == { [grainSizeMs |-> 20, attackMs |-> 200] }

\* densities and whole-second export lengths for the sweep's clock
SweepDensities == {0 - 3, 0} \cup (1 .. 12)

SweepParams ==
  { Merge(DEFAULT_PARAMS,
          [density |-> n, startPoint |-> 0, endPoint |-> 3000]) :
      n \in SweepDensities }

SweepSeconds == 1 .. 3

Draws == 0 .. RandSteps - 1

\* the draws taken while every interleaving of the calls is explored
SchedDraws == {0}

\* ------------------------------------------------------------- operations
\* ensureContext: create the context and the dry / wet / convolver nodes once
ensureContext ==
  /\ audioCtx' = TRUE
  /\ dryGain' = TRUE
  /\ wetGain' = IF wetGain = NoNode THEN DefaultGain ELSE wetGain
  /\ reverb' = IF reverb = NoNode THEN makeImpulse(params.reverbDecay)
                                  ELSE reverb

clearTimer_noop(ref, ts) == ts

\* clearTimer: the intervals left running
clearTimer(ref, ts) ==
  IF ref # Null THEN {t \in ts : t.id # ref} ELSE ts

intervalMs_times(p) == 1000 * Max(p.density, 1)

\* 1000 / Math.max(paramsRef.current.density, 1)
intervalMs(p) == 1000 \div Max(p.density, 1)

startTimers_noClear(ref, ts, id, p) ==
  ts \cup {[id |-> id, intervalMs |-> intervalMs(p)]}

\* start() after the handshake: clearTimer(), then setInterval
startTimers(ref, ts, id, p) ==
  clearTimer(ref, ts) \cup {[id |-> id, intervalMs |-> intervalMs(p)]}

startRefuses_never(buf) == FALSE

\* start() after the handshake: `if (!bufferRef.current) { alert; return }`
startRefuses(buf) == buf = Null

\* spawnGrain: `if (!ctx || !buffer) return`
liveBails(ctx, buf) == ~ctx \/ buf = Null

liveSkips_never(p) == FALSE

\* spawnGrain: `if (params.endPoint <= params.startPoint) return`
liveSkips(p) == p.endPoint <= p.startPoint

\* updateParams: `if (partial.reverbWet !== undefined && wetGainRef.current)`
updatedWetGain(partial, wg) ==
  IF "reverbWet" \in DOMAIN partial /\ wg # NoNode
    THEN partial.reverbWet ELSE wg

updatedReverb_stale(partial, rv, ctx) == rv

\* updateParams: `if (partial.reverbDecay !== undefined && reverbRef.current
\* && audioCtxRef.current)`: rebuild the impulse
updatedReverb(partial, rv, ctx) ==
  IF "reverbDecay" \in DOMAIN partial /\ rv # NoNode /\ ctx
    THEN makeImpulse(partial.reverbDecay) ELSE rv

loadedParams_reset(p, d) ==
  Merge(DEFAULT_PARAMS, [startPoint |-> 0, endPoint |-> d])

\* loadFile: { ...paramsRef.current, startPoint: 0, endPoint: decoded.duration }
loadedParams(p, d) == Merge(p, [startPoint |-> 0, endPoint |-> d])

renderRefuses_never(buf) == FALSE

\* renderLoop: `if (!buffer) { alert; return null }`
renderRefuses(buf) == buf = Null

NumPending == startPending[TRUE] + startPending[FALSE]

\* start(), up to `await ctx.resume()`
StartOp ==
  /\ mounted
  /\ NumPending < MaxPending
  /\ ensureContext
  /\ startPending' = [startPending EXCEPT ![buffer # Null] = @ + 1]
  /\ stopped' = FALSE
  /\ UNCHANGED <<buffer, duration, params, sched, loads, grains, renders,
                 currentTime, mounted, last>>

Start == StartOp /\ UNCHANGED page

StartResumeOp_silent(b, maxId) ==
  /\ startPending[b] > 0
  /\ startPending' = [startPending EXCEPT ![b] = @ - 1]
  /\ IF startRefuses(buffer)
       THEN /\ last' = "start:NoBufferLoaded"
            /\ UNCHANGED sched
       ELSE /\ nextTimer <= maxId
            /\ timers' = startTimers(timerRef, timers, nextTimer, params)
            /\ timerRef' = nextTimer
            /\ nextTimer' = nextTimer + 1
            /\ UNCHANGED isPlaying
            /\ last' = "started"
  /\ UNCHANGED <<graph, buffer, duration, params, loads, grains, renders,
                 currentTime, mounted, stopped>>

\* start(), from the resolution of ctx.resume() to its end; maxId is the
\* last handle setInterval can hand out
StartResumeOp(b, maxId) ==
  /\ startPending[b] > 0
  /\ startPending' = [startPending EXCEPT ![b] = @ - 1]
  /\ IF startRefuses(buffer)
       THEN /\ last' = "start:NoBufferLoaded"
            /\ UNCHANGED sched
       ELSE /\ nextTimer <= maxId
            /\ timers' = startTimers(timerRef, timers, nextTimer, params)
            /\ timerRef' = nextTimer
            /\ nextTimer' = nextTimer + 1
            /\ isPlaying' = TRUE
            /\ last' = "started"
  /\ UNCHANGED <<graph, buffer, duration, params, loads, grains, renders,
                 currentTime, mounted, stopped>>

StartResume(b) == StartResumeOp(b, MaxTimerId) /\ UNCHANGED page

StartResumeFail_continues(b) ==
  /\ UNCHANGED page
  /\ startPending[b] > 0
  /\ startPending' = [startPending EXCEPT ![b] = @ - 1]
  /\ nextTimer <= MaxTimerId
  /\ timers' = startTimers(timerRef, timers, nextTimer, params)
  /\ timerRef' = nextTimer
  /\ nextTimer' = nextTimer + 1
  /\ isPlaying' = TRUE
  /\ last' = "BackendUnavailable"
  /\ UNCHANGED <<graph, buffer, duration, params, loads, grains, renders,
                 currentTime, mounted, stopped>>

\* start(), when ctx.resume() rejects: the call ends with the rejection
StartResumeFail(b) ==
  /\ UNCHANGED page
  /\ startPending[b] > 0
  /\ startPending' = [startPending EXCEPT ![b] = @ - 1]
  /\ last' = "BackendUnavailable"
  /\ UNCHANGED <<graph, buffer, duration, params, sched, loads, grains,
                 renders, currentTime, mounted, stopped>>

Stop_cancelsGrains ==
  /\ UNCHANGED page
  /\ mounted
  /\ timers' = clearTimer(timerRef, timers)
  /\ timerRef' = Null
  /\ isPlaying' = FALSE
  /\ stopped' = TRUE
  /\ grains' = << >>
  /\ UNCHANGED <<graph, buffer, duration, params, nextTimer, startPending,
                 loads, renders, currentTime, mounted, last>>

\* stop()
Stop ==
  /\ UNCHANGED page
  /\ mounted
  /\ timers' = clearTimer(timerRef, timers)
  /\ timerRef' = Null
  /\ isPlaying' = FALSE
  /\ stopped' = TRUE
  /\ UNCHANGED <<graph, buffer, duration, params, nextTimer, startPending,
                 loads, grains, renders, currentTime, mounted, last>>

\* the cleanup of the hook's effect
Unmount ==
  /\ UNCHANGED page
  /\ mounted
  /\ mounted' = FALSE
  /\ timers' = clearTimer(timerRef, timers)
  /\ timerRef' = Null
  /\ UNCHANGED <<graph, buffer, duration, params, nextTimer, isPlaying,
                 startPending, loads, grains, renders, currentTime, stopped,
                 last>>

\* loadFile(file), up to the first await
LoadFile(d) ==
  /\ UNCHANGED page
  /\ mounted
  /\ d \notin loads
  /\ ensureContext
  /\ loads' = loads \cup {d}
  /\ UNCHANGED <<buffer, duration, params, sched, startPending, grains,
                 renders, currentTime, mounted, stopped, last>>

\* loadFile(file), from the end of decoding to its end
LoadDone(d) ==
  /\ UNCHANGED page
  /\ d \in loads
  /\ loads' = loads \ {d}
  /\ buffer' = d
  /\ duration' = d
  /\ params' = loadedParams(params, d)
  /\ UNCHANGED <<graph, sched, startPending, grains, renders, currentTime,
                 mounted, stopped, last>>

\* updateParams(partial)
UpdateParamsOp(partial) ==
  /\ mounted
  /\ params' = Merge(params, partial)
  /\ wetGain' = updatedWetGain(partial, wetGain)
  /\ reverb' = updatedReverb(partial, reverb, audioCtx)
  /\ UNCHANGED <<audioCtx, dryGain, buffer, duration, sched, startPending,
                 loads, grains, renders, currentTime, mounted, stopped, last>>

UpdateParams_retimes(partial) ==
  /\ UNCHANGED page
  /\ mounted
  /\ params' = Merge(params, partial)
  /\ wetGain' = updatedWetGain(partial, wetGain)
  /\ reverb' = updatedReverb(partial, reverb, audioCtx)
  /\ timers' = {[id |-> t.id, intervalMs |-> intervalMs(params')] :
                  t \in timers}
  /\ UNCHANGED <<audioCtx, dryGain, buffer, duration, timerRef, nextTimer,
                 isPlaying, startPending, loads, grains, renders, currentTime,
                 mounted, stopped, last>>

UpdateParams(partial) == UpdateParamsOp(partial) /\ UNCHANGED page

\* one firing of interval t: spawnGrain(), with Math.random() = k / RandSteps
Tick(t, k) ==
  /\ UNCHANGED page
  /\ t \in timers
  /\ IF liveBails(audioCtx, buffer)
       THEN last' = "bail" /\ UNCHANGED grains
       ELSE IF liveSkips(params)
         THEN last' = "skip" /\ UNCHANGED grains
         ELSE /\ Len(grains) < MaxGrains
              /\ grains' = Append(grains,
                    liveGrain(params, currentTime * ClockStepMs * UnitsPerMs,
                              k, dryGain, wetGain # NoNode))
              /\ last' = "grain"
  /\ UNCHANGED <<graph, buffer, duration, params, sched, startPending, loads,
                 renders, currentTime, mounted, stopped>>

\* the backend clock moves on
ClockAdvance ==
  /\ UNCHANGED page
  /\ currentTime < MaxClock
  /\ currentTime' = currentTime + 1
  /\ UNCHANGED <<graph, buffer, duration, params, sched, startPending, loads,
                 grains, renders, mounted, stopped, last>>

\* renderLoop(durationSec): the checks, the render target and the whole sweep
RenderLoop(durationSec) ==
  /\ UNCHANGED page
  /\ mounted
  /\ IF renderRefuses(buffer)
       THEN /\ last' = "render:NoBufferLoaded"
            /\ UNCHANGED <<graph, renders>>
       ELSE /\ ensureContext
            /\ \E draws \in [1 .. Len(GridFrom(0, offStep(params),
                                              durationSec * UnitsPerMs))
                             -> Draws] :
                 renders' =
                   <<[durationSec |-> durationSec * UnitsPerMs,
                      step |-> offStep(params),
                      frames |-> (durationSec * SampleRate + 999) \div 1000,
                      wet |-> params.reverbWet,
                      dry |-> 100,
                      impulse |-> makeImpulse(params.reverbDecay),
                      grains |-> offSweep(params, durationSec * UnitsPerMs,
                                          draws)]>>
            /\ last' = "rendered"
  /\ UNCHANGED <<buffer, duration, params, sched, startPending, loads, grains,
                 currentTime, mounted, stopped>>

\* renderLoop(seconds), the start times of its sweep in double arithmetic
RenderLoopTimes(seconds) ==
  /\ UNCHANGED page
  /\ mounted
  /\ ~renderRefuses(buffer)
  /\ ensureContext
  /\ renders' = <<[seconds |-> seconds,
                   density |-> params.density,
                   times |-> sweepTimes(fZero, sweepStep(params),
                                        fSeconds(seconds))]>>
  /\ last' = "rendered"
  /\ UNCHANGED <<buffer, duration, params, sched, startPending, loads, grains,
                 currentTime, mounted, stopped>>

\* ------------------------------------------------------------- the page
\* onStart: the Start button, enabled while isPlaying is false
PageStart ==
  /\ ~isPlaying
  /\ StartOp
  /\ UNCHANGED page

\* handleDensityChange(next): setDensity(next); updateParams({density: next})
PageDensityChange(next) ==
  /\ page.changes < MaxChanges
  /\ UpdateParamsOp([density |-> next])
  /\ page' = [page EXCEPT !.density = next,
                          !.effectDue = @ \/ next # page.density,
                          !.changes = @ + 1]

PageDensityEffect_idle ==
  /\ mounted
  /\ page.effectDue
  /\ page' = [page EXCEPT !.effectDue = FALSE]
  /\ UNCHANGED engine

\* the effect on [density, isPlaying, start]:
\* `if (!isPlaying) return; void start();`
PageDensityEffect ==
  /\ mounted
  /\ page.effectDue
  /\ page' = [page EXCEPT !.effectDue = FALSE]
  /\ IF isPlaying THEN StartOp ELSE UNCHANGED engine

\* the continuation of a start() the page issued; a change of isPlaying
\* re-renders the page and makes its effect due
PageStartResume(b) ==
  /\ StartResumeOp(b, PageTimerIds)
  /\ page' = [page EXCEPT !.effectDue = @ \/ isPlaying' # isPlaying]

\* ------------------------------------------------------ the alpha page
clampStart_none(next, endPt) == next

\* Math.min(next, endPoint - 0.01)
clampStart(next, endPt) == Min(next, endPt - MinRegion)

\* Math.max(next, startPoint + 0.01)
clampEnd(next, startPt) == Max(next, startPt + MinRegion)

\* handleFileChange, from the end of decoding: the rest of loadFile, then
\* the page's own continuation
AlphaLoadDone(d) ==
  /\ d \in loads
  /\ loads' = loads \ {d}
  /\ buffer' = d
  /\ duration' = d
  /\ params' = Merge(loadedParams(params, d),
                     [startPoint |-> 0, endPoint |-> d])
  /\ page' = [page EXCEPT !.bufferDuration = d,
                          !.startPoint = 0,
                          !.endPoint = d]
  /\ UNCHANGED <<graph, sched, startPending, grains, renders, currentTime,
                 mounted, stopped, last>>

\* handleStartPointChange(next)
AlphaStartPointChange(next) ==
  /\ next <= page.bufferDuration
  /\ UpdateParamsOp([startPoint |-> clampStart(next, page.endPoint)])
  /\ page' = [page EXCEPT !.startPoint = clampStart(next, page.endPoint)]

\* handleEndPointChange(next)
AlphaEndPointChange(next) ==
  /\ next <= page.bufferDuration
  /\ UpdateParamsOp([endPoint |-> clampEnd(next, page.startPoint)])
  /\ page' = [page EXCEPT !.endPoint = clampEnd(next, page.startPoint)]

\* ------------------------------------------------------- the beta page
\* handleFileChange of the beta page, from the end of decoding: the rest of
\* loadFile, then the region of 4 s, or the whole file if shorter
BetaLoadDone(d) ==
  /\ d \in loads
  /\ loads' = loads \ {d}
  /\ buffer' = d
  /\ duration' = d
  /\ params' = Merge(loadedParams(params, d),
                     [startPoint |-> 0, endPoint |-> Min(InitialRegion, d)])
  /\ page' = [page EXCEPT !.startPoint = 0,
                          !.endPoint = Min(InitialRegion, d)]
  /\ UNCHANGED <<graph, sched, startPending, grains, renders, currentTime,
                 mounted, stopped, last>>

\* handleRegionChange(newStart, newEnd), called by the waveform viewer when
\* a drag of the playback region ends
BetaRegionChange(newStart, newEnd) ==
  /\ UpdateParamsOp([startPoint |-> newStart, endPoint |-> newEnd])
  /\ page' = [page EXCEPT !.startPoint = newStart, !.endPoint = newEnd]

\* ---------------------------------------------------------- specification
Init ==
  /\ audioCtx = FALSE
  /\ dryGain = FALSE
  /\ wetGain = NoNode
  /\ reverb = NoNode
  /\ buffer = Null
  /\ duration = 1000
  /\ params = DEFAULT_PARAMS
  /\ timerRef = Null
  /\ timers = {}
  /\ nextTimer = 1
  /\ isPlaying = FALSE
  /\ startPending = [b \in BOOLEAN |-> 0]
  /\ loads = {}
  /\ grains = << >>
  /\ renders = << >>
  /\ currentTime = 0
  /\ mounted = TRUE
  /\ stopped = FALSE
  /\ last = "init"
  /\ page = PageInit

Next ==
  \/ Start
  \/ \E b \in BOOLEAN : StartResume(b)
  \/ \E b \in BOOLEAN : StartResumeFail(b)
  \/ Stop
  \/ Unmount
  \/ \E d \in LoadDurations : LoadFile(d)
  \/ \E d \in LoadDurations : LoadDone(d)
  \/ \E partial \in Partials : UpdateParams(partial)
  \/ \E t \in timers, k \in SchedDraws : Tick(t, k)

\* the engine driven through its interface: every interleaving of the calls,
\* their continuations and the interval's firings
Spec == Init /\ [][Next]_vars

\* a running engine with a loaded buffer, its parameters set by earlier merges
InitSynth ==
  /\ audioCtx = TRUE
  /\ dryGain = TRUE
  /\ wetGain = DefaultGain
  /\ reverb = makeImpulse(DEFAULT_PARAMS.reverbDecay)
  /\ buffer = 3000
  /\ duration = 3000
  /\ params \in SynthParams
  /\ timerRef = 1
  /\ timers = {[id |-> 1, intervalMs |-> intervalMs(DEFAULT_PARAMS)]}
  /\ nextTimer = 2
  /\ isPlaying = TRUE
  /\ startPending = [b \in BOOLEAN |-> 0]
  /\ loads = {}
  /\ grains = << >>
  /\ renders = << >>
  /\ currentTime = 0
  /\ mounted = TRUE
  /\ stopped = FALSE
  /\ last = "started"
  /\ page = PageInit

NextSynth ==
  \/ \E t \in timers, k \in Draws : Tick(t, k)
  \/ ClockAdvance
  \/ \E d \in RenderDurations : RenderLoop(d)

\* the grain computations of both paths over a range of parameter sets
SpecSynth == InitSynth /\ [][NextSynth]_vars

NextGraph ==
  \/ Start
  \/ \E b \in BOOLEAN : StartResume(b)
  \/ \E d \in LoadDurations : LoadFile(d)
  \/ \E d \in LoadDurations : LoadDone(d)
  \/ \E partial \in GraphPartials : UpdateParams(partial)
  \/ \E t \in timers, k \in SchedDraws : Tick(t, k)
  \/ \E d \in GraphRenderDurations : RenderLoop(d)

\* the audio graph, the live grains and the offline renders under every
\* interleaving of loads, merges, ticks and renders
SpecGraph == Init /\ [][NextGraph]_vars

NextForget ==
  \/ Start
  \/ \E b \in BOOLEAN : StartResume(b)
  \/ Stop
  \/ \E d \in LoadDurations : LoadFile(d)
  \/ \E d \in LoadDurations : LoadDone(d)
  \/ \E partial \in ShapePartials : UpdateParams(partial)
  \/ \E t \in timers, k \in SchedDraws : Tick(t, k)
  \/ \E d \in GraphRenderDurations : RenderLoop(d)

\* submitted grains under every interleaving of the engine's operations
SpecForget == Init /\ [][NextForget]_vars

\* a running engine with a loaded buffer, its rate and detune set by earlier
\* merges
InitRate ==
  /\ audioCtx = TRUE
  /\ dryGain = TRUE
  /\ wetGain = DefaultGain
  /\ reverb = makeImpulse(DEFAULT_PARAMS.reverbDecay)
  /\ buffer = 3000
  /\ duration = 3000
  /\ params \in RateParams
  /\ timerRef = 1
  /\ timers = {[id |-> 1, intervalMs |-> intervalMs(DEFAULT_PARAMS)]}
  /\ nextTimer = 2
  /\ isPlaying = TRUE
  /\ startPending = [b \in BOOLEAN |-> 0]
  /\ loads = {}
  /\ grains = << >>
  /\ renders = << >>
  /\ currentTime = 0
  /\ mounted = TRUE
  /\ stopped = FALSE
  /\ last = "started"
  /\ page = PageInit

NextRate ==
  \/ \E t \in timers, k \in Draws : Tick(t, k)
  \/ \E d \in RenderDurations : RenderLoop(d)

\* the rate of the grains of both paths over playback rates and detunes
SpecRate == InitRate /\ [][NextRate]_vars

\* a loaded engine, not yet started, whose density was set by earlier merges
InitDensity ==
  /\ audioCtx = TRUE
  /\ dryGain = TRUE
  /\ wetGain = DefaultGain
  /\ reverb = makeImpulse(DEFAULT_PARAMS.reverbDecay)
  /\ buffer = 3000
  /\ duration = 3000
  /\ params \in DensityParams
  /\ timerRef = Null
  /\ timers = {}
  /\ nextTimer = 1
  /\ isPlaying = FALSE
  /\ startPending = [b \in BOOLEAN |-> 0]
  /\ loads = {}
  /\ grains = << >>
  /\ renders = << >>
  /\ currentTime = 0
  /\ mounted = TRUE
  /\ stopped = FALSE
  /\ last = "init"
  /\ page = PageInit

NextDensity ==
  \/ Start
  \/ \E b \in BOOLEAN : StartResume(b)
  \/ Stop
  \/ \E d \in RenderDurations : RenderLoop(d)

\* the scheduler's interval and the offline grid over a range of densities
SpecDensity == InitDensity /\ [][NextDensity]_vars

InitSweep ==
  /\ audioCtx = TRUE
  /\ dryGain = TRUE
  /\ wetGain = DefaultGain
  /\ reverb = makeImpulse(DEFAULT_PARAMS.reverbDecay)
  /\ buffer = 3000
  /\ duration = 3000
  /\ params \in SweepParams
  /\ timerRef = Null
  /\ timers = {}
  /\ nextTimer = 1
  /\ isPlaying = FALSE
  /\ startPending = [b \in BOOLEAN |-> 0]
  /\ loads = {}
  /\ grains = << >>
  /\ renders = << >>
  /\ currentTime = 0
  /\ mounted = TRUE
  /\ stopped = FALSE
  /\ last = "init"
  /\ page = PageInit

NextSweep ==
  \/ \E n \in SweepSeconds : RenderLoopTimes(n)
  \/ \E n \in SweepDensities : UpdateParams([density |-> n])

\* the offline sweep's clock over a range of densities and export lengths
SpecSweep == InitSweep /\ [][NextSweep]_vars

NextAlpha ==
  \/ \E d \in PageDurations : LoadFile(d)
  \/ \E d \in PageDurations : AlphaLoadDone(d)
  \/ \E next \in SliderValues : AlphaStartPointChange(next)
  \/ \E next \in SliderValues : AlphaEndPointChange(next)
  \/ Start
  \/ \E b \in BOOLEAN : StartResume(b)
  \/ \E t \in timers, k \in SchedDraws : Tick(t, k)

\* the alpha page: file loads and the start / end sliders
SpecAlpha == Init /\ [][NextAlpha]_vars

NextBeta ==
  \/ \E d \in BetaDurations : LoadFile(d)
  \/ \E d \in BetaDurations : BetaLoadDone(d)
  \/ \E newStart \in RegionValues, newEnd \in RegionValues :
       BetaRegionChange(newStart, newEnd)
  \/ Start
  \/ \E b \in BOOLEAN : StartResume(b)
  \/ \E t \in timers, k \in SchedDraws : Tick(t, k)

\* the beta page: file loads and the region markers of the waveform viewer
SpecBeta == Init /\ [][NextBeta]_vars

\* the page after a file was loaded, the engine not yet started
InitPage ==
  /\ audioCtx = TRUE
  /\ dryGain = TRUE
  /\ wetGain = DefaultGain
  /\ reverb = makeImpulse(DEFAULT_PARAMS.reverbDecay)
  /\ buffer = 3000
  /\ duration = 3000
  /\ params = loadedParams(DEFAULT_PARAMS, 3000)
  /\ timerRef = Null
  /\ timers = {}
  /\ nextTimer = 1
  /\ isPlaying = FALSE
  /\ startPending = [b \in BOOLEAN |-> 0]
  /\ loads = {}
  /\ grains = << >>
  /\ renders = << >>
  /\ currentTime = 0
  /\ mounted = TRUE
  /\ stopped = FALSE
  /\ last = "init"
  /\ page = [PageInit EXCEPT !.endPoint = 3000, !.bufferDuration = 3000]

NextPage ==
  \/ PageStart
  \/ \E n \in PageDensities : PageDensityChange(n)
  \/ PageDensityEffect
  \/ \E b \in BOOLEAN : PageStartResume(b)

\* the page's density effect: React runs a due effect, and every resume
\* handshake completes
SpecPage ==
  /\ InitPage
  /\ [][NextPage]_vars
  /\ WF_vars(PageDensityEffect)
  /\ WF_vars(\E b \in BOOLEAN : PageStartResume(b))

TypeOK ==
  /\ audioCtx \in BOOLEAN
  /\ buffer \in {Null} \cup LoadDurations \cup PageDurations \cup BetaDurations
  /\ timerRef \in 0 .. Max(MaxTimerId, PageTimerIds)
  /\ Len(grains) <= MaxGrains

\* ------------------------------------------------------------------ claims
LiveGrains == {grains[i] : i \in 1 .. Len(grains)}

OfflineGrains ==
  UNION {{renders[i].grains[j] : j \in 1 .. Len(renders[i].grains)} :
           i \in 1 .. Len(renders)}

Submitted == LiveGrains \cup OfflineGrains

ValidRegion(p) == p.endPoint > p.startPoint

\* max(endPoint - startPoint, 0.05), in time units
Window(p) == Max(p.endPoint - p.startPoint, MinWindow) * UnitsPerMs

\* C1: once stop() has returned and until start() is invoked again, the
\* scheduler is Idle: no interval is running, timerRef is empty and isPlaying
\* is false.  The code breaks this: a start() suspended in ctx.resume() when
\* stop() is called resumes afterwards and sets up an interval.
C1_IdleAfterStop ==
  stopped => (timers = {} /\ timerRef = Null /\ ~isPlaying)

\* C2: at most one interval is running in every reachable state, whatever the
\* interleaving of start() and stop() and however many start() calls are
\* suspended at once; the running interval is the one timerRef holds.
C2_OneTimer ==
  /\ Cardinality(timers) <= 1
  /\ \A t \in timers : t.id = timerRef

\* a second start() has replaced the interval of the first, and another
\* start() is still suspended
C2_Witness ==
  /\ Cardinality(timers) = 1
  /\ nextTimer > 2
  /\ NumPending > 0

\* C3: a start() that resumes from the handshake with no buffer loaded
\* reports NoBufferLoaded, sets up no interval, submits no grain, and leaves
\* the scheduler Idle with isPlaying false.
C3_StartWithoutBuffer ==
  [][(NumPending' < NumPending /\ buffer = Null /\ buffer' = Null
        /\ last' # "BackendUnavailable")
       => /\ last' = "start:NoBufferLoaded"
          /\ timers' = {} /\ timerRef' = Null /\ ~isPlaying'
          /\ nextTimer' = nextTimer
          /\ grains' = grains /\ grains = << >>]_vars

C3_Witness ==
  /\ last = "start:NoBufferLoaded"
  /\ buffer = Null
  /\ timers = {} /\ timerRef = Null /\ ~isPlaying
  /\ NumPending = 0

\* C4: a live tick that finds endPoint <= startPoint submits no grain and
\* reports nothing; the interval, timerRef and isPlaying stay as they were,
\* with the interval still running.
C4_TickSkips ==
  [][/\ (params.endPoint <= params.startPoint) => grains' = grains
     /\ (last' = "skip" /\ last # "skip")
          => /\ params.endPoint <= params.startPoint
             /\ grains' = grains
             /\ timers' = timers /\ timers # {}
             /\ timerRef' = timerRef /\ isPlaying' = isPlaying
             /\ params' = params]_vars

\* a tick has skipped on an invalid region while the scheduler is Running
C4_Witness ==
  /\ last = "skip"
  /\ params.endPoint <= params.startPoint
  /\ timers # {} /\ isPlaying

\* C5: no grain of an offline render was computed from parameters with
\* endPoint <= startPoint.  The code breaks this: the sweep of renderLoop has
\* no such test and submits a grain at every grid point.
C5_OfflineSkips ==
  \A g \in OfflineGrains : ValidRegion(g.params)

\* C6 as stated: every grain of a valid region lies in the window,
\* startPoint <= offset and offset + grainDuration <= startPoint + windowLength.
C6_GrainInsideWindow ==
  \A g \in Submitted :
    ValidRegion(g.params) =>
      /\ g.params.startPoint * UnitsPerMs <= g.offset
      /\ g.offset + g.duration
           <= g.params.startPoint * UnitsPerMs + Window(g.params)

\* C6 as amended: every grain of a valid region starts at or after
\* startPoint and ends no later than startPoint + max(windowLength,
\* grainDuration): a grain longer than the window starts at startPoint and
\* overruns the window by its excess length.
C6_GrainInsideWindowOrAtStart ==
  \A g \in Submitted :
    ValidRegion(g.params) =>
      /\ g.params.startPoint * UnitsPerMs <= g.offset
      /\ g.offset + g.duration
           <= g.params.startPoint * UnitsPerMs
                + Max(Window(g.params), g.duration)

\* grains of both paths, of a valid region, that are longer than the window
C6_Witness ==
  \E g \in LiveGrains : \E h \in OfflineGrains :
    /\ ValidRegion(g.params) /\ g.duration > Window(g.params)
    /\ ValidRegion(h.params) /\ h.duration > Window(h.params)
    /\ h.ref > 0

\* C7: every grain of a valid region has its source offset inside the
\* selected region, startPoint <= offset <= endPoint.  The code breaks this for
\* regions shorter than 0.05 s, where offsets are drawn from a 0.05 s window.
C7_OffsetInRegion ==
  \A g \in Submitted :
    ValidRegion(g.params) =>
      /\ g.params.startPoint * UnitsPerMs <= g.offset
      /\ g.offset <= g.params.endPoint * UnitsPerMs

\* C8: the envelope of every grain has attack >= 0, release >= 0 and
\* attack + release <= max(grainDuration - 0.005, 0.005).
C8_EnvelopeBudget ==
  \A g \in Submitted :
    /\ g.attack >= 0
    /\ g.release >= 0
    /\ g.attack + g.release
         <= Max(g.params.grainSizeMs - MinEnvelope, MinEnvelope) * UnitsPerMs

\* grains of both paths whose attackMs and releaseMs exceed the grain
C8_Witness ==
  \E g \in LiveGrains : \E h \in OfflineGrains :
    /\ g.params.attackMs > g.params.grainSizeMs
    /\ g.params.releaseMs > g.params.grainSizeMs
    /\ h.params = g.params

\* C9: in both paths the release ramp starts no earlier than the attack ramp
\* ends, and the gain breakpoints start, start + attack, releaseStart +
\* release are in non-decreasing time order.
C9_ReleaseAfterAttack ==
  \A g \in Submitted :
    /\ g.releaseStart >= g.attackEnd
    /\ g.ref <= g.attackEnd
    /\ g.attackEnd <= g.envEnd

\* grains of both paths whose attack outlasts grainDuration - release
C9_Witness ==
  \E g \in LiveGrains : \E h \in OfflineGrains :
    /\ g.duration - g.release < g.attack
    /\ h.duration - h.release < h.attack

\* C10: a live grain and an offline grain computed from the same parameters
\* (valid region) and the same random draw are equal relative to their
\* reference times: offset, duration, rate, attack end, envelope end and stop
\* time, and both are routed to the dry and to the wet path.
C10_LiveOfflineAgree ==
  \A g \in LiveGrains : \A h \in OfflineGrains :
    (g.params = h.params /\ g.k = h.k /\ ValidRegion(g.params)) =>
      /\ g.offset = h.offset
      /\ g.duration = h.duration
      /\ g.rate = h.rate
      /\ g.attackEnd - g.ref = h.attackEnd - h.ref
      /\ g.envEnd - g.ref = h.envEnd - h.ref
      /\ g.stopAt - g.ref = h.stopAt - h.ref
      /\ g.dry /\ g.wet /\ h.dry /\ h.wet

\* a live grain at a later clock reading and an offline grain at a later grid
\* point, from the same parameters and a positive draw
C10_Witness ==
  \E g \in LiveGrains : \E h \in OfflineGrains :
    /\ g.params = h.params /\ g.k = h.k /\ ValidRegion(g.params)
    /\ g.k > 0 /\ g.ref > 0 /\ h.ref > 0 /\ g.ref # h.ref

\* C11: whenever the live audio graph exists, the gain of the live wet path
\* equals the current reverbWet, the wet gain an offline render of the same
\* parameters uses.  The code breaks this: ensureContext leaves the new wet
\* gain node at its default gain, and only a later merge that carries
\* reverbWet sets it.
C11_WetGainFollowsParams ==
  wetGain # NoNode => wetGain = params.reverbWet

\* floor(reverbDecay * sampleRate), at least 1
ImpulseLength(decayMs) ==
  IF (decayMs * SampleRate) \div 1000 >= 1
    THEN (decayMs * SampleRate) \div 1000 ELSE 1

\* C12: whenever the live graph exists, the live impulse response has the
\* length max(floor(reverbDecay * sampleRate), 1) of the current reverbDecay
\* (110250 frames for 2.5 s at 44100 Hz), and an offline render started in
\* that state builds an impulse of the same length.
C12_ImpulseFollowsDecay ==
  [][ /\ reverb' # NoNode => reverb' = ImpulseLength(params'.reverbDecay)
      /\ (reverb' # NoNode /\ params'.reverbDecay = 2500) => reverb' = 110250
      /\ renders' # renders => renders'[1].impulse = reverb'
    ]_vars

\* the live impulse was rebuilt for a merged decay of 0.1 s, and a render
\* made afterwards carries the same length
C12_Witness ==
  /\ params.reverbDecay = 100
  /\ reverb = 4410
  /\ renders # << >>
  /\ renders[1].impulse = 4410

\* C13: updateParams(partial) sets every field the partial supplies and
\* leaves every other field as it was, and never changes the loaded buffer,
\* the active interval or isPlaying.
C13_MergeFrame ==
  [][ (params' # params /\ loads' = loads) =>
        /\ \E partial \in Partials :
             \A f \in Fields :
               params'[f] = IF f \in DOMAIN partial THEN partial[f]
                                                   ELSE params[f]
        /\ UNCHANGED <<buffer, timerRef, timers, isPlaying>>
    ]_vars

\* two merges of different fields have been applied while the interval runs:
\* each field holds the value of the merge that supplied it
C13_Witness ==
  /\ params.density = 2
  /\ params.reverbWet = 60
  /\ params.grainSizeMs = DEFAULT_PARAMS.grainSizeMs
  /\ buffer # Null
  /\ isPlaying
  /\ timers # {}

\* every command of grain g is the value the one parameter set p gives it
FromSnapshot(g, p) ==
  LET dur == p.grainSizeMs * UnitsPerMs
      maxEnv == Max(dur - MinEnvelope * UnitsPerMs, MinEnvelope * UnitsPerMs)
      att == Min(p.attackMs * UnitsPerMs, maxEnv)
      range == Max(Window(p) - dur, 0)
  IN  /\ g.params = p
      /\ g.duration = dur
      /\ g.offset = p.startPoint * UnitsPerMs + (g.k * range) \div RandSteps
      /\ g.rate.num * 100 * detuneMultiplier(p.detuneSemitones).den
           = g.rate.den * p.playbackRate
               * detuneMultiplier(p.detuneSemitones).num
      /\ g.attack = att
      /\ g.attackEnd = g.ref + att
      /\ g.release = Min(p.releaseMs * UnitsPerMs, maxEnv - att)
      /\ g.stopAt = g.ref + dur + SafetyTail * UnitsPerMs

\* C14: every grain, of a live tick or of an offline grid point, is computed
\* from one parameter snapshot, the store's contents at the moment the tick or
\* the render runs, never from a mix of two, whatever the interleaving of
\* merges with ticks and renders.
C14_OneSnapshot ==
  [][ /\ Len(grains') > Len(grains) =>
           FromSnapshot(grains'[Len(grains')], params)
      /\ renders' # renders =>
           \A i \in 1 .. Len(renders'[1].grains) :
             FromSnapshot(renders'[1].grains[i], params)
    ]_vars

\* a render ran before a merge of the grain shape and a tick after it: each
\* grain carries its own snapshot
C14_Witness ==
  /\ grains # << >>
  /\ renders # << >>
  /\ grains[1].params.grainSizeMs = 20
  /\ grains[1].params.attackMs = 200
  /\ renders[1].grains[1].params.grainSizeMs = 120
  /\ renders[1].grains[1].params.attackMs = 10

\* C15: when loadFile completes, the engine holds the decoded buffer,
\* startPoint is 0, endPoint is the decoded duration, every other field is
\* as it was immediately before the completion, and the interval and
\* isPlaying are unchanged.
C15_LoadFrame ==
  [][ Cardinality(loads') < Cardinality(loads) =>
        \E d \in loads :
          /\ buffer' = d
          /\ duration' = d
          /\ params' = [params EXCEPT !.startPoint = 0, !.endPoint = d]
          /\ UNCHANGED <<timerRef, timers, isPlaying>>
    ]_vars

\* a load has completed in an engine whose density and wet level were merged
\* and whose interval runs
C15_Witness ==
  /\ loads = {}
  /\ buffer = 3000
  /\ params.startPoint = 0
  /\ params.endPoint = 3000
  /\ params.density = 2
  /\ params.reverbWet = 60
  /\ isPlaying
  /\ timers # {}

\* C16: density is floored at 1 in both paths: the live interval is
\* 1000 / max(density, 1) ms, in (0, 1000], and the offline step is
\* 1 / max(density, 1) s, in (0, 1], for every density, 0 and negative
\* values included.
C16_DensityFloor ==
  /\ \A t \in timers :
       /\ t.intervalMs > 0
       /\ t.intervalMs <= 1000
       /\ t.intervalMs =
            (IF params.density >= 1 THEN 1000 \div params.density ELSE 1000)
  /\ \A i \in 1 .. Len(renders) :
       /\ renders[i].step > 0
       /\ renders[i].step <= 1000 * UnitsPerMs
       /\ renders[i].step =
            (IF params.density >= 1
               THEN (1000 * UnitsPerMs) \div params.density
               ELSE 1000 * UnitsPerMs)

\* an interval runs and a render was made while density is 0 or negative
C16_Witness ==
  /\ params.density <= 0
  /\ timers # {}
  /\ renders # << >>

\* C17: the offline sweep terminates having visited exactly the grid points
\* t = k * step with k * step < durationSec: as many grains as there are such
\* k, in strictly increasing order of start time, none starting at or after
\* durationSec.  The code breaks this: t is the running sum of a rounded
\* step, which can stay below durationSec for one addition more than there
\* are grid points.
C17_SweepGrid ==
  \A i \in 1 .. Len(renders) :
    LET r == renders[i]
        n == Len(r.times)
    IN  ValidRegion(params) =>
          /\ n = r.seconds * (IF r.density >= 1 THEN r.density ELSE 1)
          /\ r.times[1] = fZero
          /\ \A j \in 1 .. n : fLess(r.times[j], fSeconds(r.seconds))
          /\ \A j \in 1 .. n - 1 : fLess(r.times[j], r.times[j + 1])

\* C18: renderLoop with no buffer loaded reports NoBufferLoaded without
\* creating an audio context or a render target, without submitting a grain
\* and without changing the parameters, the buffer, the interval or
\* isPlaying.
C18_RenderWithoutBuffer ==
  [][ /\ buffer' = Null => renders' = << >>
      /\ (last' = "render:NoBufferLoaded" /\ last' # last) =>
           /\ buffer = Null
           /\ UNCHANGED <<graph, renders, grains, params, buffer, sched>>
    ]_vars

\* a render was refused in an engine that has no graph yet, after a merge
C18_Witness ==
  /\ last = "render:NoBufferLoaded"
  /\ buffer = Null
  /\ ~audioCtx
  /\ renders = << >>
  /\ params # DEFAULT_PARAMS

\* C19: when the resume handshake fails during start(), start() ends with
\* the failure: no interval is created, and isPlaying, the parameters, the
\* buffer and an interval that was already running are unchanged.
C19_ResumeFailure ==
  [][ (last' = "BackendUnavailable" /\ NumPending' < NumPending) =>
        UNCHANGED <<timerRef, timers, nextTimer, isPlaying, params, buffer>>
    ]_vars

\* the handshake of a second start() failed while the interval of the first
\* runs
C19_Witness ==
  /\ last = "BackendUnavailable"
  /\ NumPending = 0
  /\ isPlaying
  /\ timers # {}
  /\ timerRef # Null

\* everything stop() could touch: all of the state but the record that a
\* stop() was called
engineState ==
  <<graph, buffer, duration, params, sched, startPending, loads, grains,
    renders, currentTime, mounted, last, page>>

\* C20: stop() can be called in every state and is idempotent: it leaves the
\* scheduler Idle with parameters, buffer and submitted grains untouched, and
\* called when already Idle it changes nothing, so stop(); stop() is the same
\* as stop().
C20_StopIdempotent ==
  /\ mounted => ENABLED Stop
  /\ ~ENABLED (Stop /\ ~(/\ timers' = {}
                        /\ timerRef' = Null
                        /\ ~isPlaying'
                        /\ UNCHANGED <<params, buffer, grains, graph>>))
  /\ (timerRef = Null /\ ~isPlaying) =>
       ~ENABLED (Stop /\ engineState' # engineState)

\* stop() was called in an engine that was never started
C20_Witness ==
  /\ stopped
  /\ last = "init"
  /\ nextTimer = 1
  /\ timers = {}
  /\ ~isPlaying

\* C21: grain submission is fire-and-forget: no step of stop(), start(),
\* updateParams or loadFile removes or alters a grain already submitted, and
\* every submitted grain, live or offline, keeps the stop time
\* start time + grainDuration + 0.05 s.
C21_FireAndForget ==
  [][ /\ Len(grains') >= Len(grains)
      /\ \A i \in 1 .. Len(grains) : grains'[i] = grains[i]
      /\ \A i \in 1 .. Len(grains') :
           grains'[i].stopAt
             = grains'[i].ref + grains'[i].duration + SafetyTail * UnitsPerMs
      /\ \A i \in 1 .. Len(renders') :
           \A j \in 1 .. Len(renders'[i].grains) :
             LET g == renders'[i].grains[j]
             IN  g.stopAt = g.ref + g.duration + SafetyTail * UnitsPerMs
    ]_vars

\* a grain of 120 ms was submitted; since then the engine was stopped and the
\* grain size merged to 20 ms, and a render was made
C21_Witness ==
  /\ grains # << >>
  /\ grains[1].duration = 120 * UnitsPerMs
  /\ params.grainSizeMs = 20
  /\ stopped
  /\ timers = {}
  /\ renders # << >>

\* C22: a merge that changes density leaves the running interval and its
\* period as they are; an interval gets the period 1000 / max(density, 1) ms
\* of the density read when the start() that creates it resumes after its
\* handshake.
C22_DensityMergeKeepsInterval ==
  [][ /\ params'.density # params.density => UNCHANGED <<timerRef, timers>>
      /\ \A t \in timers' \ timers :
           t.intervalMs =
             (IF params.density >= 1 THEN 1000 \div params.density ELSE 1000)
    ]_vars

\* density was merged to 2 while the interval created for density 8 runs on
\* with its period of 125 ms
C22_Witness ==
  /\ isPlaying
  /\ params.density = 2
  /\ \E t \in timers : t.id = timerRef /\ t.intervalMs = 125

\* C23: the rate of every grain, live or offline, is
\* playbackRate * 2^(detuneSemitones / 12): with playbackRate 1 a detune of
\* 12 gives 2, a detune of -12 gives 0.5, and a detune of 0 gives playbackRate
\* itself.  Checked for detunes of whole octaves, where the power is exact.
C23_RateMultiplier ==
  \A g \in Submitted :
    LET p == g.params
        oct == p.detuneSemitones \div 12
    IN  /\ p.detuneSemitones = 12 * oct
        /\ oct >= 0 =>
             g.rate.num * 100 = g.rate.den * p.playbackRate * 2 ^ oct
        /\ oct < 0 =>
             g.rate.num * 100 * 2 ^ (0 - oct) = g.rate.den * p.playbackRate
        /\ (p.playbackRate = 100 /\ p.detuneSemitones = 12) =>
             g.rate.num = 2 * g.rate.den
        /\ (p.playbackRate = 100 /\ p.detuneSemitones = 0 - 12) =>
             2 * g.rate.num = g.rate.den
        /\ p.detuneSemitones = 0 =>
             g.rate.num * 100 = g.rate.den * p.playbackRate

\* a live and an offline grain were submitted at playback rate 2 detuned by
\* -12: their rate is 1
C23_Witness ==
  /\ params.playbackRate = 200
  /\ params.detuneSemitones = 0 - 12
  /\ \E g \in LiveGrains : g.rate.num = g.rate.den
  /\ \E g \in OfflineGrains : g.rate.num = g.rate.den

\* C24: start() decides on the buffer before the handshake: a start() issued
\* while no buffer is loaded never begins ticking, whatever happens while the
\* call is pending.  The code breaks this: start() tests the buffer only
\* after ctx.resume() has resolved, so a load that completes in between lets
\* the call set up the interval.
C24_StartDecidesFirst ==
  [][ startPending'[FALSE] < startPending[FALSE] => UNCHANGED sched ]_vars

\* C25: after the cleanup of the owning component has run, no interval is
\* active in any later state.  The code breaks this: a start() suspended in
\* ctx.resume() when the cleanup runs resumes afterwards and sets up an
\* interval that nothing clears.
C25_NoTimerAfterUnmount ==
  ~mounted => (timers = {} /\ timerRef = Null)

\* no start() is pending and the one running interval has the period of the
\* current density
Settled ==
  /\ NumPending = 0
  /\ Cardinality(timers) = 1
  /\ \A t \in timers :
       /\ t.id = timerRef
       /\ t.intervalMs =
            (IF params.density >= 1 THEN 1000 \div params.density ELSE 1000)
  /\ params.density = page.density

\* C26: driven through the page, with every resume handshake completing and
\* no stop: from every state in which isPlaying is true, whatever density
\* changes were made, the engine reaches a state with no start() pending in
\* which exactly one interval runs, with period 1000 / max(density, 1) ms for
\* the current density.
C26_DensityTakesEffect == isPlaying ~> Settled

\* two density changes later the engine has settled on the period of the
\* last one, 500 ms, after more restarts than the first start and the one
\* its change of isPlaying caused
C26_Witness ==
  /\ Settled
  /\ isPlaying
  /\ page.changes >= 2
  /\ params.density = 2
  /\ nextTimer > 3
  /\ ~page.effectDue

\* C27: in the alpha page, once a file of at least 0.01 s is loaded, every
\* sequence of start and end slider changes within [0, bufferDuration] keeps
\* 0 <= startPoint <= endPoint - 0.01 in the engine's parameters, which the
\* page's state mirrors, so no tick finds endPoint <= startPoint.
C27_AlphaRegionValid ==
  buffer # Null =>
    /\ 0 <= params.startPoint
    /\ params.startPoint <= params.endPoint - MinRegion
    /\ page.startPoint = params.startPoint
    /\ page.endPoint = params.endPoint
    /\ last # "skip"

\* the start slider was pushed to the end of a 3 s file and clamped 0.01 s
\* below the end point; a grain was spawned from that region
C27_Witness ==
  /\ buffer = 3000
  /\ params.endPoint = 3000
  /\ params.startPoint = 3000 - MinRegion
  /\ last = "grain"

\* C28: in the beta page, after handleRegionChange(newStart, newEnd), for
\* any pair of values, startPoint < endPoint holds in the engine's
\* parameters and in the page's state.
C28_BetaRegionOrdered ==
  [][ \A newStart \in RegionValues, newEnd \in RegionValues :
        BetaRegionChange(newStart, newEnd) =>
          /\ params'.startPoint < params'.endPoint
          /\ page'.startPoint < page'.endPoint
    ]_vars

\* C29: while the component is mounted, in every state between handlers
\* isPlaying is true if and only if a tick timer is active, and a timer is
\* active only if a buffer is loaded, whatever the interleaving of start(),
\* stop(), loadFile and updateParams.
C29_PlayingIffTimer ==
  mounted =>
    /\ isPlaying <=> (timers # {})
    /\ (timers # {}) => buffer # Null

\* the engine is playing on its second interval or a later one: an earlier
\* interval was replaced by a second start() or cleared by stop()
C29_Witness ==
  /\ mounted
  /\ isPlaying
  /\ buffer # Null
  /\ nextTimer > 2
  /\ \E t \in timers : t.id = timerRef

\* C30: for every grainSizeMs > 0 and attackMs, releaseMs >= 0 the gain
\* envelope of every grain, live or offline, finishes within the grain:
\* attack <= grainDuration, and the fade-out ends (releaseStart + release)
\* no later than grainDuration after the grain's start.
C30_EnvelopeWithinGrain ==
  \A g \in Submitted :
    /\ g.attack <= g.duration
    /\ g.envEnd <= g.ref + g.duration

=============================================================================
